---- MODULE Spec2Model ----
(***************************************************************************)
(* State-machine model of the material / mesh viewer of                    *)
(* src/src/app/ThreeCanvas.tsx (the documented ThreeCanvas, Scene, GlbNode *)
(* and ContextLossProtector components, lines 769-2203).                   *)
(*                                                                         *)
(* One action is one event delivered to the page (a user input, a load     *)
(* callback, a context signal, an animation frame) together with the React *)
(* render passes and effects it causes, run until no state update is left. *)
(* The one effect that never settles, GlbNode's onReady effect, is its own *)
(* action.  Numbers with a fraction are kept in hundredths (0.02 is 2).    *)
(***************************************************************************)
EXTENDS Integers, Sequences, FiniteSets, TLC

\* ------------------------------------------------------------------ bounds
\* ctxVersion is capped: a context loss is taken only below this value.
MaxCtx == 2
\* glbMountTick is capped: GlbNode's effect is taken only below this value.
MaxTick == 2
\* texture loads in flight at one time.
MaxLoads == 2

\* the components of the surface normals tried range over -MaxN .. MaxN.
MaxN == 2

\* completion timers of goToY pending at one time: a click or a step that
\* would start one more is not taken.
MaxTimers == 2

\* ---------------------------------------------------------------- catalogs
None == "none"
White == "#ffffff"
\* the 1x1 DataTexture of Scene (whiteTex)
WhiteTex == "whiteTex"
\* a material's map left unset (null)
NullMap == "null"

\* meshIndex < 5 is model-backed
NumGlb == 5

MESHES == <<
  [name |-> "Mother Earth", glb |-> "/glb1.glb"],
  [name |-> "Venus Willendorf", glb |-> "/glb2.glb"],
  [name |-> "Hekate Trivia", glb |-> "/glb3.glb"],
  [name |-> "Transi de Rene de Chalon", glb |-> "/glb4.glb"],
  [name |-> "Skull", glb |-> "/glb5.glb"],
  [name |-> "Sphere", glb |-> None],
  [name |-> "Box", glb |-> None],
  [name |-> "Torus", glb |-> None],
  [name |-> "Cone", glb |-> None],
  [name |-> "Cylinder", glb |-> None] >>

Base(c, m, r, tr, th, cc, ccr) ==
  [color |-> c, metalness |-> m, roughness |-> r, ior |-> 150, transmission |-> tr,
   thickness |-> th, clearcoat |-> cc, clearcoatRoughness |-> ccr]

MATERIALS == <<
  [name |-> "Texture 1", base |-> Base(None, 0, 20, 0, 0, 0, 0), mapUrl |-> "/texture1.jpg"],
  [name |-> "Texture 2", base |-> Base(None, 20, 20, 0, 0, 0, 0), mapUrl |-> "/texture2.jpg"],
  [name |-> "Texture 3", base |-> Base(None, 0, 20, 0, 0, 10, 20), mapUrl |-> "/texture3.jpg"],
  [name |-> "Texture 4", base |-> Base(None, 60, 20, 0, 0, 20, 30), mapUrl |-> "/texture4.jpg"],
  [name |-> "Texture 5", base |-> Base(None, 0, 20, 0, 0, 0, 0), mapUrl |-> "/texture5.jpg"],
  [name |-> "Texture 6", base |-> Base(None, 0, 20, 0, 0, 0, 0), mapUrl |-> "/texture6.jpg"],
  [name |-> "Texture 7", base |-> Base(None, 0, 20, 0, 0, 0, 0), mapUrl |-> "/texture7.jpg"],
  [name |-> "Texture 8", base |-> Base(None, 0, 20, 0, 0, 0, 0), mapUrl |-> "/texture8.jpg"],
  [name |-> "Texture 9", base |-> Base(None, 0, 20, 0, 0, 0, 0), mapUrl |-> "/texture9.jpg"],
  [name |-> "Default", base |-> Base("#8976b8", 0, 10, 0, 0, 0, 0), mapUrl |-> None],
  [name |-> "Metal", base |-> Base("#c0c0c0", 100, 10, 0, 0, 0, 0), mapUrl |-> None],
  [name |-> "Glass", base |-> Base("#ffffff", 0, 10, 100, 100, 0, 0), mapUrl |-> None],
  [name |-> "Rough", base |-> Base("#8ec78f", 0, 90, 0, 0, 0, 0), mapUrl |-> None],
  [name |-> "Chrome", base |-> Base("#ffffff", 100, 0, 0, 0, 0, 0), mapUrl |-> None] >>

\* The inputs the model draws.  Spec interleaves every operation over a
\* model-backed and a procedural mesh and a textured and a coloured preset;
\* SpecMesh and SpecTexture run one half of the Scene over the wide sets.
MeshInputs == {0, 5}
MatInputs == {0, 9}
MeshInputsWide == {0, 1, 5, 6}
MatInputsWide == {0, 1, 9, 11}
ScaleInputs == {56, 100}
ParamEdits == {<<"color", "#ff0000">>}
\* slider values around the snapping threshold 0.02, in hundredths
SnapInputs == {1, 2, 3}
ParamEditsWide ==
  {<<"color", "#ff0000">>, <<"metalness", 50>>}
    \cup ({"transmission", "thickness", "clearcoat"} \X SnapInputs)

IsGLB(i) == i < NumGlb
GlbPathOf(i) == IF IsGLB(i) THEN MESHES[i + 1].glb ELSE ""
CurrentMapUrl(i) == MATERIALS[i + 1].mapUrl
GlbPaths == {GlbPathOf(i) : i \in 0 .. NumGlb - 1}
PathsOf(M) == {GlbPathOf(i) : i \in {j \in M : IsGLB(j)}}

VARIABLES
  IS_WEBGPU,      \* navigator.gpu probe, fixed per page load
  renderer,       \* what the gl factory produced: none, webgpu, webgl, or what it threw
  glLost,         \* the canvas' WebGL context is lost
  lostPrevented,  \* the last webglcontextlost event had its default prevented
  glbCache,       \* useGLTF's cache: path -> pending, loaded, failed
  crashed,        \* an exception left the Scene (no error boundary catches it)
  meshIndex, matIndex, params, texScale, safeMode, ctxVersion, sceneReady,
  mounted,        \* the Scene is mounted
  loadingGlb, readyNotified, glbMountTick,
  tex, loadingTex, lastMap,
  texLoads,       \* TextureLoader loads in flight, each with its run's alive flag
  loadError,      \* the load of the current selection ended in its error callback
  sharedMat,      \* sharedMatRef.current
  matCount,       \* MeshPhysicalMaterial instances created by the Scene
  nodeKey,        \* key of the mounted group / mesh node
  glbLeaves,      \* the drawable leaves of each cached model scene
  primLeaf,       \* the procedural mesh node
  raf,            \* the root captured by the pending requestAnimationFrame(assign)
  probe,          \* the argument a function of the module is applied to (SpecFn)
  result,         \* what that application returned (SpecFn)
  page,           \* the page scroller (Page) and the Navbar
  simple          \* the ThreeCanvasSimple component

vars == <<IS_WEBGPU, renderer, glLost, lostPrevented, glbCache, crashed,
          meshIndex, matIndex, params, texScale, safeMode, ctxVersion, sceneReady,
          mounted, loadingGlb, readyNotified, glbMountTick, tex, loadingTex, lastMap,
          texLoads, loadError, sharedMat, matCount, nodeKey, glbLeaves, primLeaf, raf,
          probe, result, page, simple>>

\* the variables of the material / mesh viewer
sceneVars ==
  <<IS_WEBGPU, renderer, glLost, lostPrevented, glbCache, crashed,
    meshIndex, matIndex, params, texScale, safeMode, ctxVersion, sceneReady,
    mounted, loadingGlb, readyNotified, glbMountTick, tex, loadingTex, lastMap,
    texLoads, loadError, sharedMat, matCount, nodeKey, glbLeaves, primLeaf, raf>>

\* the state as one record; tcDirty is set while ThreeCanvas has to re-render
St ==
  [IS_WEBGPU |-> IS_WEBGPU, renderer |-> renderer, glLost |-> glLost,
   lostPrevented |-> lostPrevented, glbCache |-> glbCache, crashed |-> crashed,
   meshIndex |-> meshIndex, matIndex |-> matIndex, params |-> params, texScale |-> texScale,
   safeMode |-> safeMode, ctxVersion |-> ctxVersion, sceneReady |-> sceneReady,
   mounted |-> mounted, loadingGlb |-> loadingGlb, readyNotified |-> readyNotified,
   glbMountTick |-> glbMountTick, tex |-> tex, loadingTex |-> loadingTex, lastMap |-> lastMap,
   texLoads |-> texLoads, loadError |-> loadError, sharedMat |-> sharedMat,
   matCount |-> matCount, nodeKey |-> nodeKey, glbLeaves |-> glbLeaves,
   primLeaf |-> primLeaf, raf |-> raf, tcDirty |-> FALSE]

Becomes(r) ==
  /\ IS_WEBGPU' = r.IS_WEBGPU /\ renderer' = r.renderer
  /\ glLost' = r.glLost /\ lostPrevented' = r.lostPrevented /\ glbCache' = r.glbCache
  /\ crashed' = r.crashed /\ meshIndex' = r.meshIndex /\ matIndex' = r.matIndex
  /\ params' = r.params /\ texScale' = r.texScale /\ safeMode' = r.safeMode
  /\ ctxVersion' = r.ctxVersion /\ sceneReady' = r.sceneReady /\ mounted' = r.mounted
  /\ loadingGlb' = r.loadingGlb /\ readyNotified' = r.readyNotified
  /\ glbMountTick' = r.glbMountTick /\ tex' = r.tex /\ loadingTex' = r.loadingTex
  /\ lastMap' = r.lastMap /\ texLoads' = r.texLoads /\ loadError' = r.loadError
  /\ sharedMat' = r.sharedMat /\ matCount' = r.matCount /\ nodeKey' = r.nodeKey
  /\ glbLeaves' = r.glbLeaves /\ primLeaf' = r.primLeaf /\ raf' = r.raf
  /\ UNCHANGED <<probe, result, page, simple>>


\* ------------------------------------------------------- three.js objects
NoKey == [mesh |-> -1, ctx |-> -1]
KeyOf(s) == [mesh |-> s.meshIndex, ctx |-> s.ctxVersion]

\* a drawable leaf (THREE.Mesh).  Material ids above 0 are materials the Scene
\* created; ids below 0 are the materials a model file brings for its meshes.
\* The uv attribute of a leaf's geometry: the one the geometry came with (a
\* procedural geometry's own, a model file's own), or the one
\* boxProjectUVsCentered has set from a pivot and a reference size.
OwnUV == [src |-> "own", pivot |-> <<0, 0, 0>>, size |-> 0]
NoLeaf == [mat |-> 0, castShadow |-> FALSE, receiveShadow |-> FALSE, uv |-> OwnUV]
\* a loaded model scene: two meshes, each with the material of the file
GlbScene0 ==
  <<[mat |-> -1, castShadow |-> FALSE, receiveShadow |-> FALSE, uv |-> OwnUV],
    [mat |-> -2, castShadow |-> FALSE, receiveShadow |-> FALSE, uv |-> OwnUV]>>
\* <mesh castShadow> with <primitive attach="material" object={sharedMatRef.current}/>
NewPrimLeaf(s) ==
  [mat |-> s.sharedMat.id, castShadow |-> TRUE, receiveShadow |-> FALSE, uv |-> OwnUV]

NoMat ==
  [id |-> 0, gen |-> -1, color |-> None, roughness |-> 0, metalness |-> 0, ior |-> 0,
   transmission |-> 0, thickness |-> 0, clearcoat |-> 0, clearcoatRoughness |-> 0,
   map |-> NullMap, triMap |-> None, triScale |-> 0, triSharp |-> 0,
   triPivot |-> None, hooks |-> 0]

\* applyTriplanar with = in place of ??=: the uniforms object is made anew
applyTriplanarResets(m) ==
  [m EXCEPT !.triMap = NullMap, !.triScale = 100, !.triSharp = 200,
            !.triPivot = <<0, 0, 0>>, !.hooks = 1]

\* applyTriplanar: userData.triUniforms ??= {...}; onBeforeCompile = hook.
\* A material without the uniforms object has triMap = None.  The hook is
\* assigned, so the material has one hook however often it is patched.
applyTriplanar(m) ==
  IF m.triMap = None
  THEN [m EXCEPT !.triMap = NullMap, !.triScale = 100, !.triSharp = 200,
                 !.triPivot = <<0, 0, 0>>, !.hooks = 1]
  ELSE [m EXCEPT !.hooks = 1]

\* if (!sharedMatRef.current) { new MeshPhysicalMaterial(...) ... }, in Scene's body
CreateSharedMat(s) ==
  IF s.sharedMat.id # 0 THEN s
  ELSE
    LET p == s.params
        m == [id |-> s.matCount + 1, gen |-> s.ctxVersion,
              color |-> IF p.color # None THEN p.color ELSE White,
              roughness |-> p.roughness, metalness |-> p.metalness, ior |-> p.ior,
              transmission |-> p.transmission, thickness |-> p.thickness,
              clearcoat |-> p.clearcoat, clearcoatRoughness |-> p.clearcoatRoughness,
              map |-> NullMap, triMap |-> None, triScale |-> 0, triSharp |-> 0,
              triPivot |-> None, hooks |-> 0]
        m2 == IF ~s.IS_WEBGPU
              THEN [applyTriplanar([m EXCEPT !.map = WhiteTex]) EXCEPT !.triMap = WhiteTex]
              ELSE IF s.tex # None THEN [m EXCEPT !.map = s.tex] ELSE m
    IN [s EXCEPT !.sharedMat = m2, !.matCount = s.matCount + 1]

\* ------------------------------------------------------------ Scene effects
\* Every effect takes cur, the state its closure was rendered with, and acc, the
\* state the pass has built so far (refs and objects are read from acc).

\* cleanup of the texture effect: alive = false for the load its run started
TextureCleanup(loads) ==
  [k \in DOMAIN loads |-> [loads[k] EXCEPT !.alive = FALSE]]

\* the texture effect without the line if (lastMapRef.current === mapUrl) return
TextureEffectAlwaysLoads(cur, acc) ==
  LET mapUrl == CurrentMapUrl(cur.matIndex)
      a == [acc EXCEPT !.texLoads = TextureCleanup(acc.texLoads), !.loadError = FALSE]
  IN IF mapUrl = None
     THEN [a EXCEPT !.lastMap = None, !.loadingTex = FALSE, !.tex = None]
     ELSE [a EXCEPT !.loadingTex = TRUE,
                    !.texLoads = Append(a.texLoads, [url |-> mapUrl, alive |-> TRUE])]

\* useEffect(..., [mapUrl, triScale]): the texture loading effect
TextureEffect(cur, acc) ==
  LET mapUrl == CurrentMapUrl(cur.matIndex)
      a == [acc EXCEPT !.texLoads = TextureCleanup(acc.texLoads), !.loadError = FALSE]
  IN IF mapUrl = None
     THEN [a EXCEPT !.lastMap = None, !.loadingTex = FALSE, !.tex = None]
     ELSE IF a.lastMap = mapUrl THEN a
     ELSE [a EXCEPT !.loadingTex = TRUE,
                    !.texLoads = Append(a.texLoads, [url |-> mapUrl, alive |-> TRUE])]

\* useEffect(..., [isGLB, meshIndex]): track GLB loading state
GlbTrackEffect(cur, acc) ==
  [acc EXCEPT !.loadingGlb = IsGLB(cur.meshIndex), !.readyNotified = FALSE]

\* useEffect(..., [loadingGlb, loadingTex, onReady]): notify the parent
ReadyEffect(cur, acc) ==
  IF ~cur.loadingGlb /\ ~cur.loadingTex /\ ~acc.readyNotified
  THEN [acc EXCEPT !.readyNotified = TRUE, !.sceneReady = TRUE,
                   !.tcDirty = acc.tcDirty \/ ~acc.sceneReady]
  ELSE acc

\* the material effect without the snapping
SnapNone(v) == v

EPS == 2
Snap(v) == IF v > EPS THEN v ELSE 0

\* useEffect(..., [params, envIntensity, tex, mapUrl, whiteTex, triScale, invalidate])
MaterialEffect(cur, acc) ==
  LET p == cur.params
      mapUrl == CurrentMapUrl(cur.matIndex)
      hasTex == mapUrl # None /\ cur.tex # None
      m == [acc.sharedMat EXCEPT
              !.roughness = p.roughness, !.metalness = p.metalness, !.ior = p.ior,
              !.transmission = Snap(p.transmission), !.thickness = Snap(p.thickness),
              !.clearcoat = Snap(p.clearcoat), !.clearcoatRoughness = p.clearcoatRoughness]
      m2 == IF cur.IS_WEBGPU
            THEN [m EXCEPT !.map = IF hasTex THEN cur.tex ELSE NullMap,
                           !.color = IF hasTex THEN White
                                     ELSE IF p.color # None THEN p.color ELSE @]
            ELSE [m EXCEPT !.triMap = IF hasTex THEN cur.tex ELSE WhiteTex,
                           !.triScale = cur.texScale,
                           !.color = IF mapUrl # None THEN White
                                     ELSE IF p.color # None THEN p.color ELSE @]
  IN [acc EXCEPT !.sharedMat = m2]

\* the properties of the material (and uniforms) one run of the material
\* effect assigns.  The seven parameters, the map / the uniforms are assigned
\* on every run, whatever the material holds; only envMapIntensity, a fixed
\* value, is compared first, and the colour is assigned when there is one.
MaterialWrites(cur, acc) ==
  LET mapUrl == CurrentMapUrl(cur.matIndex)
      hasTex == mapUrl # None /\ cur.tex # None
  IN {"roughness", "metalness", "ior", "transmission", "thickness", "clearcoat",
      "clearcoatRoughness"}
       \cup (IF cur.IS_WEBGPU
              THEN {"map", "needsUpdate"}
                     \cup (IF hasTex \/ cur.params.color # None THEN {"color"} ELSE {})
              ELSE {"triMap", "triScale"}
                     \cup (IF mapUrl # None \/ cur.params.color # None
                            THEN {"color"} ELSE {}))

\* assign() with the line mesh.material = sharedMatRef.current left out
AssignLeafFlagsOnly(leaf, mat) ==
  [leaf EXCEPT !.castShadow = TRUE, !.receiveShadow = TRUE]

\* what assign() does to one drawable leaf
AssignLeaf(leaf, mat) ==
  [leaf EXCEPT !.castShadow = TRUE, !.receiveShadow = TRUE, !.mat = mat.id]

\* the centre of the bounding box of a loaded model.  The model files are not
\* part of the source; each model is given a centre of its own, off the origin.
GlbPivot(i) == <<0, i + 1, 0>>

\* pivotWS: the centre of Box3().setFromObject(root).  The procedural
\* geometries are centred on the origin, and the centre of the empty box of a
\* group without a model (not loaded yet, or a replaced group) is the origin.
PivotOf(acc, root) ==
  IF root = acc.nodeKey /\ IsGLB(root.mesh)
     /\ acc.glbCache[GlbPathOf(root.mesh)] = "loaded"
  THEN GlbPivot(root.mesh) ELSE <<0, 0, 0>>

\* the largest extent of the procedural geometries, in hundredths: sphere
\* radius 1, box 1.5, torus 1 + 0.4, cone and cylinder radius 1 height 2
PrimSize == <<200, 150, 280, 200, 200>>
\* the largest extent of a loaded model: as its centre, one of its own
GlbSize(i) == 300 + 10 * i

\* sizeRef: Math.max(sizeWS.x, sizeWS.y, sizeWS.z) || 1; the size of the empty
\* box of a group without a model is 0, which gives 1
SizeOf(acc, root) ==
  IF root # acc.nodeKey THEN 100
  ELSE IF IsGLB(root.mesh)
  THEN IF acc.glbCache[GlbPathOf(root.mesh)] = "loaded" THEN GlbSize(root.mesh) ELSE 100
  ELSE PrimSize[root.mesh - NumGlb + 1]

\* boxProjectUVsCentered(geometry, mesh, pivotWS, sizeRef): the uv attribute is
\* replaced by the one computed from this pivot and size
ProjectLeaf(leaf, pivot, size) ==
  [leaf EXCEPT !.uv = [src |-> "box", pivot |-> pivot, size |-> size]]

\* the body of root.traverse for one mesh: flags and material, and on the
\* modern backend the box-projected UVs
VisitLeaf(acc, root, leaf) ==
  IF acc.IS_WEBGPU
  THEN ProjectLeaf(AssignLeaf(leaf, acc.sharedMat), PivotOf(acc, root), SizeOf(acc, root))
  ELSE AssignLeaf(leaf, acc.sharedMat)

\* assign(): traverse root, bind sharedMatRef.current to every mesh under it.
\* root is the node captured by the effect; a node that was replaced is detached
\* and holds no leaf of the scene any more.
assignLeaves(acc, root) ==
  IF root # acc.nodeKey THEN acc
  ELSE IF IsGLB(root.mesh)
  THEN LET path == GlbPathOf(root.mesh) IN
       IF acc.glbCache[path] = "loaded"
       THEN [acc EXCEPT !.glbLeaves[path] =
                          [n \in DOMAIN @ |-> VisitLeaf(acc, root, @[n])]]
       ELSE acc
  ELSE [acc EXCEPT !.primLeaf = VisitLeaf(acc, root, @)]

\* assign(): on the legacy backend copy the pivot into the triPivot uniform,
\* then bind the material to the leaves
assign(acc, root) ==
  assignLeaves(IF acc.IS_WEBGPU THEN acc
               ELSE [acc EXCEPT !.sharedMat.triPivot = PivotOf(acc, root)], root)

\* useEffect(..., [isGLB, glbPath, meshIndex, glbMountTick]): assign now and once
\* on the next animation frame; the cleanup of the previous run cancels its frame
AssignEffect(cur, acc) ==
  [assign(acc, acc.nodeKey) EXCEPT !.raf = acc.nodeKey]

\* the preset effect with the spread reversed: { ...base, ...prev }
PresetEffectKeepsEdits(cur, acc) ==
  LET base == MATERIALS[cur.matIndex + 1].base
      merged == [f \in DOMAIN acc.params |->
                   IF f = "color" /\ acc.params.color = None THEN base.color
                   ELSE acc.params[f]]
      next == IF CurrentMapUrl(cur.matIndex) # None
              THEN [merged EXCEPT !.color = None] ELSE merged
  IN [acc EXCEPT !.params = next, !.tcDirty = TRUE]

\* ThreeCanvas: useEffect(..., [matIndex, currentMapUrl]) -> setParams
PresetEffect(cur, acc) ==
  LET base == MATERIALS[cur.matIndex + 1].base
      merged == [f \in DOMAIN acc.params |->
                   IF f = "color" /\ base.color = None THEN acc.params.color ELSE base[f]]
      next == IF CurrentMapUrl(cur.matIndex) # None
              THEN [merged EXCEPT !.color = None] ELSE merged
  IN [acc EXCEPT !.params = next, !.tcDirty = TRUE]

\* the keyed node: key={`glb-${glbPath}-${ctxVersion}`} / key={`prim-${meshIndex}-${ctxVersion}`}
RenderNode(cur) ==
  IF KeyOf(cur) = cur.nodeKey THEN cur
  ELSE [cur EXCEPT !.nodeKey = KeyOf(cur),
                   !.primLeaf = IF IsGLB(cur.meshIndex) THEN NoLeaf ELSE NewPrimLeaf(cur)]

\* GlbNode is mounted: the model is selected and useGLTF has it
GlbNodeMounted(s) ==
  /\ s.mounted /\ ~s.crashed /\ IsGLB(s.meshIndex)
  /\ s.glbCache[GlbPathOf(s.meshIndex)] = "loaded"

\* the drawable leaves under the mounted node
DisplayedLeaves(s) ==
  IF ~s.mounted THEN {}
  ELSE IF IsGLB(s.meshIndex)
  THEN IF GlbNodeMounted(s)
       THEN {s.glbLeaves[GlbPathOf(s.meshIndex)][n] :
               n \in DOMAIN s.glbLeaves[GlbPathOf(s.meshIndex)]}
       ELSE {}
  ELSE {s.primLeaf}

\* useGLTF throws what the loader rejected with; nothing catches it
RenderThrows(s) ==
  IsGLB(s.meshIndex) /\ s.glbCache[GlbPathOf(s.meshIndex)] = "failed"

\* One render of ThreeCanvas / Scene followed by the effects whose dependencies
\* changed since prev, the state of the previous render; first is the mount.
\* The operators below run the effects in the order of their declaration, each
\* on the state acc the effects before it have built.

\* render: the body of Scene (shared material, keyed node)
RenderScene(cur) ==
  RenderNode(CreateSharedMat([cur EXCEPT !.tcDirty = FALSE, !.mounted = TRUE]))

\* [mapUrl, triScale]
RunTextureEffect(prev, cur, first, acc) ==
  IF \/ first
     \/ CurrentMapUrl(cur.matIndex) # CurrentMapUrl(prev.matIndex)
     \/ cur.texScale # prev.texScale
  THEN TextureEffect(cur, acc) ELSE acc

\* [isGLB, meshIndex]
RunGlbTrackEffect(prev, cur, first, acc) ==
  IF first \/ cur.meshIndex # prev.meshIndex THEN GlbTrackEffect(cur, acc) ELSE acc

\* [loadingGlb, loadingTex, onReady]: onReady is a new closure whenever
\* ThreeCanvas renders
RunReadyEffect(prev, cur, first, acc) ==
  IF \/ first \/ cur.tcDirty
     \/ cur.loadingGlb # prev.loadingGlb \/ cur.loadingTex # prev.loadingTex
  THEN ReadyEffect(cur, acc) ELSE acc

\* [params, envIntensity, tex, mapUrl, whiteTex, triScale, invalidate]: the
\* props change only when ThreeCanvas renders
RunMaterialEffect(prev, cur, first, acc) ==
  IF first \/ cur.tcDirty \/ cur.tex # prev.tex THEN MaterialEffect(cur, acc) ELSE acc

\* [isGLB, glbPath, meshIndex, glbMountTick]
RunAssignEffect(prev, cur, first, acc) ==
  IF first \/ cur.meshIndex # prev.meshIndex \/ cur.glbMountTick # prev.glbMountTick
  THEN AssignEffect(cur, acc) ELSE acc

\* ThreeCanvas: [matIndex, currentMapUrl]; at mount it rewrites the initial
\* parameters with themselves
RunPresetEffect(prev, cur, first, acc) ==
  IF ~first /\ cur.matIndex # prev.matIndex THEN PresetEffect(cur, acc) ELSE acc

Pass(prev, cur, first) ==
  RunPresetEffect(prev, cur, first,
    RunAssignEffect(prev, cur, first,
      RunMaterialEffect(prev, cur, first,
        RunReadyEffect(prev, cur, first,
          RunGlbTrackEffect(prev, cur, first,
            RunTextureEffect(prev, cur, first, RenderScene(cur)))))))

RECURSIVE Settle(_, _, _)
\* nxt is what the pass rendered with cur has produced: stop when it changed
\* nothing, else render again with nxt
SettleStep(cur, nxt) ==
  IF ~nxt.tcDirty /\ nxt = [cur EXCEPT !.tcDirty = FALSE] THEN nxt
  ELSE Settle([cur EXCEPT !.tcDirty = FALSE], nxt, FALSE)

\* React runs render passes until no state update is left; a render in which
\* useGLTF throws ends the Scene
Settle(prev, cur, first) ==
  IF RenderThrows(cur) THEN [cur EXCEPT !.crashed = TRUE, !.tcDirty = FALSE]
  ELSE SettleStep(cur, Pass(prev, cur, first))

\* ------------------------------------------------------- renderer selection
\* what the environment does to the modern backend: the two dynamic imports
\* (a module with the constructor, a module without it, a rejected import),
\* the constructor, and init()
GpuEnvs ==
  [mod1 : {"ctor", "noctor", "throws"}, mod2 : {"ctor", "noctor", "throws"},
   ctorThrows : BOOLEAN, init : {"absent", "resolves", "rejects"}]

\* loadWebGPURenderer(): the constructor, or null
loadWebGPURenderer(isWebGPU, g) ==
  IF ~isWebGPU THEN "null"
  ELSE IF g.mod1 = "ctor" THEN "ctor"
  ELSE IF g.mod1 = "noctor" THEN "null"
  ELSE IF g.mod2 = "ctor" THEN "ctor"
  ELSE "null"

\* the gl prop of <Canvas>: the renderer it returns, or the exception that
\* leaves it (nothing in the factory catches the constructor or init())
glFactory(isWebGPU, g) ==
  IF isWebGPU
  THEN IF loadWebGPURenderer(isWebGPU, g) = "ctor"
       THEN IF g.ctorThrows THEN "threw_ctor"
            ELSE IF g.init = "rejects" THEN "threw_init"
            ELSE "webgpu"
       ELSE "webgl"
  ELSE "webgl"

\* ------------------------------------------------------------------ handlers
Remove(q, k) == SubSeq(q, 1, k - 1) \o SubSeq(q, k + 1, Len(q))

\* the onLoad callback with the guard if (!alive) left out
TexOnLoadUnguarded(s, k) ==
  LET l == s.texLoads[k] IN
  [s EXCEPT !.texLoads = Remove(@, k), !.tex = l.url, !.lastMap = l.url,
            !.loadingTex = FALSE]

\* TextureLoader onLoad callback of the load texLoads[k]
TexOnLoad(s, k) ==
  LET l == s.texLoads[k] IN
  IF ~l.alive THEN [s EXCEPT !.texLoads = Remove(@, k)]
  ELSE [s EXCEPT !.texLoads = Remove(@, k), !.tex = l.url, !.lastMap = l.url,
                 !.loadingTex = FALSE]

\* TextureLoader onError callback of the load texLoads[k]
TexOnError(s, k) ==
  LET l == s.texLoads[k] IN
  IF l.alive THEN [s EXCEPT !.texLoads = Remove(@, k), !.loadingTex = FALSE,
                            !.loadError = TRUE]
  ELSE [s EXCEPT !.texLoads = Remove(@, k)]

\* handleLost that also bumps the version
handleLostBumps(s) ==
  [s EXCEPT !.lostPrevented = TRUE, !.safeMode = TRUE, !.ctxVersion = @ + 1,
            !.tcDirty = TRUE]

\* handleLost with e.preventDefault() left out
handleLostNoPrevent(s) ==
  [s EXCEPT !.safeMode = TRUE, !.tcDirty = TRUE]

\* ContextLossProtector.handleLost: e.preventDefault(); onLost() = setSafeMode(true)
handleLost(s) ==
  [s EXCEPT !.lostPrevented = TRUE, !.safeMode = TRUE, !.tcDirty = TRUE]

\* handleRestored with the version flipped between 0 and 1
handleRestoredFlips(s) ==
  [s EXCEPT !.ctxVersion = 1 - @, !.safeMode = FALSE, !.tcDirty = TRUE]

\* ContextLossProtector.handleRestored: onRestored() = setCtxVersion(v => v + 1);
\* setSafeMode(false)
handleRestored(s) ==
  [s EXCEPT !.ctxVersion = @ + 1, !.safeMode = FALSE, !.tcDirty = TRUE]

\* the onReady closure Scene hands to GlbNode
GlbOnReady(s) ==
  [s EXCEPT !.glbMountTick = @ + 1, !.loadingGlb = FALSE]

\* setParams((p) => ({ ...p, [field]: v }))
SetParam(s, f, v) ==
  [s EXCEPT !.params = [@ EXCEPT ![f] = v], !.tcDirty = TRUE]

\* which sliders the panel shows
isGlass(s) == s.params.transmission > 1
ControlShown(s, f) ==
  CASE f = "color" -> CurrentMapUrl(s.matIndex) = None
    [] f \in {"ior", "transmission", "thickness"} -> isGlass(s)
    [] f \in {"clearcoat", "clearcoatRoughness"} -> ~isGlass(s)
    [] OTHER -> TRUE

\* ------------------------------------------------- settings derived from safeMode
\* window.devicePixelRatio, in hundredths (below 1 when the page is zoomed out)
DevicePixelRatios == {75, 100, 200}

\* <Canvas shadows={!safeMode}>
CanvasShadows(safe) == ~safe
\* <Canvas dpr={safeMode ? 1 : Math.min(window.devicePixelRatio, 1.5)}>
CanvasDpr(safe, d) == IF safe THEN 100 ELSE IF d < 150 THEN d ELSE 150
\* <directionalLight castShadow={!safeMode}>
KeyLightCastShadow(safe) == ~safe
\* shadow-mapSize-width / -height = {safeMode ? 512 : 256}
ShadowMapSize(safe) == IF safe THEN 512 ELSE 256
\* the floor: <meshPhysicalMaterial .../> in either mode (the reflector is
\* commented out)
FloorMaterial(safe) == "flat"

\* ------------------------------------------ the page scroller and the Navbar
\* Page (src/unnamed/part_005) and Navbar (src/src/app/Navbar.tsx).  Time is
\* counted in ticks; what matters is the order of the deadlines of one call,
\* 800 < 800 + 20 < 1200 < 1200 + 20 ms, kept as 4 < 5 < 6 < 7 ticks.

\* the three .snap-section elements
NumSections == 3
\* SCROLL_MS = 1200
SCROLL_TICKS == 6
\* the 800 ms of a settle scroll
SETTLE_TICKS == 4
\* window.setTimeout(..., ms + 20)
TIMER_EXTRA == 1
\* the 140 ms of the wheel handler's settle timer
WHEEL_SETTLE_TICKS == 1

NoScroll == [to |-> 0, left |-> 0, on |-> FALSE]

\* pos is the section nearest to the scroll position (it is taken to change
\* when a scroll reaches its target) and exact says that the position is that
\* section's centre; anim is the fallback animation of animRef, lscroll the
\* locked scroll Lenis is running, timers the time left of the completion
\* timers of goToY, settle that of the wheel handler's timer (-1: none)
ScrollerInit ==
  [lenis |-> FALSE, started |-> FALSE, pos |-> 0, exact |-> TRUE, active |-> 0,
   navActive |-> 0, isAnimating |-> FALSE, anim |-> NoScroll, lscroll |-> NoScroll,
   timers |-> <<>>, settle |-> -1]

\* Navbar: handleSectionChange = (e) => setActiveSection(e.detail), the listener
\* of 'sectionchange'.  No code of the repository dispatches that event, so no
\* action delivers one.
handleSectionChange(p, detail) == [p EXCEPT !.navActive = detail]

\* currentIndex() and the loop of updateActive(): the section whose middle is
\* nearest to the centre of the viewport
currentIndex(p) == p.pos

\* updateActive(): setActive(best)
updateActive(p) == [p EXCEPT !.active = currentIndex(p)]

ClampSection(i) == IF i < 0 THEN 0 ELSE IF i > NumSections - 1 THEN NumSections - 1 ELSE i

\* goToY(centerYFor(section idx), ms).  With Lenis: the flag, lenis.scrollTo
\* with lock: true (Lenis drops a scrollTo while a locked scroll runs), and a
\* timer of ms + 20 that clears the flag.  Without: the flag, cancel of the
\* running animation, animateScrollFallback, whose onDone clears the flag and
\* which is done at once when the distance is below 1 or ms is 0.
goToY(p, idx, ticks) ==
  IF p.lenis
  THEN LET p1 == [p EXCEPT !.isAnimating = TRUE,
                           !.timers = Append(@, ticks + TIMER_EXTRA)]
       IN IF p.lscroll.on THEN p1
          ELSE IF ticks = 0 THEN [p1 EXCEPT !.pos = idx, !.exact = TRUE]
          ELSE [p1 EXCEPT !.lscroll = [to |-> idx, left |-> ticks, on |-> TRUE]]
  ELSE LET p1 == [p EXCEPT !.isAnimating = TRUE, !.anim = NoScroll]
       IN IF (p.exact /\ idx = p.pos) \/ ticks = 0
          THEN updateActive([p1 EXCEPT !.pos = idx, !.exact = TRUE, !.isAnimating = FALSE])
          ELSE [p1 EXCEPT !.anim = [to |-> idx, left |-> ticks, on |-> TRUE]]

\* scrollToIndex(idx, ms)
scrollToIndex(p, idx, ticks) == goToY(p, idx, ticks)

\* one tick of the Lenis scroll: at its end the position is the target and the
\* lock is released; the raf loop of the Lenis effect calls updateActive()
LenisFrame(p) ==
  LET p1 == IF ~p.lscroll.on THEN p
            ELSE IF p.lscroll.left > 1
            THEN [p EXCEPT !.lscroll.left = @ - 1, !.exact = FALSE]
            ELSE [p EXCEPT !.lscroll = NoScroll, !.pos = p.lscroll.to, !.exact = TRUE]
  IN IF p.lenis THEN updateActive(p1) ELSE p1

\* one tick of animateScrollFallback's step: onUpdate, and onDone at the end
FallbackFrame(p) ==
  IF ~p.anim.on THEN p
  ELSE IF p.anim.left > 1
  THEN updateActive([p EXCEPT !.anim.left = @ - 1, !.exact = FALSE])
  ELSE updateActive([p EXCEPT !.anim = NoScroll, !.pos = p.anim.to, !.exact = TRUE,
                              !.isAnimating = FALSE])

\* the clocks of the pending timers advance by one tick
TimersTick(p) ==
  [p EXCEPT !.timers = [k \in DOMAIN @ |-> @[k] - 1],
            !.settle = IF @ > 0 THEN @ - 1 ELSE @]

\* the callback of goToY's timer: isAnimatingRef.current = false; updateActive()
goToYTimer(p, k) ==
  updateActive([p EXCEPT !.timers = Remove(@, k), !.isAnimating = FALSE])

\* the callback of the wheel handler's settle timer
settleTimer(p) ==
  LET p1 == [p EXCEPT !.settle = -1]
  IN IF ~p.isAnimating THEN scrollToIndex(p1, currentIndex(p1), SETTLE_TICKS) ELSE p1

\* ------------------------------------------------------- ThreeCanvasSimple
\* src/src/app/ThreeCanvasSimple.tsx: its own catalogs, five procedural meshes
\* and five presets
SIMPLE_MESHES == <<"Sphere", "Box", "Torus", "Cone", "Cylinder">>
SIMPLE_MATERIALS == <<
  [name |-> "Default", base |-> Base("#ffffff", 0, 50, 0, 0, 0, 0)],
  [name |-> "Metal", base |-> Base("#c0c0c0", 100, 10, 0, 0, 0, 0)],
  [name |-> "Glass", base |-> Base("#ffffff", 0, 0, 100, 50, 0, 0)],
  [name |-> "Rough", base |-> Base("#8b4513", 0, 90, 0, 0, 0, 0)],
  [name |-> "Chrome", base |-> Base("#ffffff", 100, 0, 0, 0, 0, 0)] >>

SimpleMeshInputs == {0, 1, 2}
SimpleMatInputs == {0, 1, 2}
SimpleParamEdits == {<<"color", "#ff0000">>, <<"metalness", 50>>}

\* meshRef.current: null, or a mesh with its geometry and material
NoSimpleMesh == [on |-> FALSE, geometry |-> -1, material |-> SIMPLE_MATERIALS[1].base]

\* phase: before the mount, mounted, after the cleanup; setup: the async
\* function of the mount effect (idle, pending on its imports, done); scene:
\* sceneRef.current is set; userMeshes: the meshes createMesh has added to the
\* scene graph and not removed; frame: an animation frame of animate() is
\* scheduled
SimpleInit ==
  [phase |-> "none", setup |-> "idle", meshIndex |-> 0, matIndex |-> 0,
   params |-> SIMPLE_MATERIALS[1].base, scene |-> FALSE, mesh |-> NoSimpleMesh,
   userMeshes |-> 0, frame |-> FALSE]

\* the values a render's createMesh closes over
SimpleClosure(c) == [meshIndex |-> c.meshIndex, params |-> c.params]
\* the closure of the first render, which the mount effect's async function keeps
FirstClosure == [meshIndex |-> 0, params |-> SIMPLE_MATERIALS[1].base]

\* createMesh(), as defined by the render with the closure cl
createMesh(c, cl) ==
  IF ~c.scene THEN c
  ELSE [c EXCEPT !.userMeshes = (IF c.mesh.on THEN @ - 1 ELSE @) + 1,
                 !.mesh = [on |-> TRUE, geometry |-> cl.meshIndex, material |-> cl.params]]

\* useEffect(..., [params]): copy the parameters into the mesh's material
SimpleParamsEffect(c) ==
  IF ~c.mesh.on THEN c ELSE [c EXCEPT !.mesh.material = c.params]

\* useEffect(..., [matIndex]): setParams((prev) => ({ ...prev, ...base })),
\* then the render it causes and the params effect
SimplePresetEffect(c) ==
  SimpleParamsEffect([c EXCEPT !.params = SIMPLE_MATERIALS[c.matIndex + 1].base])

\* the mount: the effects of the first render in the order of their
\* declaration (scene and renderer, async setup started; createMesh; params;
\* preset)
SimpleMountEffects(c) ==
  SimplePresetEffect(SimpleParamsEffect(
    createMesh([c EXCEPT !.phase = "mounted", !.scene = TRUE, !.setup = "pending"],
               FirstClosure)))

\* the rest of the async function once the imports have resolved: sky, lights,
\* floor, createMesh() of the first render, animate()
SimpleSetupRest(c) ==
  [createMesh(c, FirstClosure) EXCEPT !.setup = "done", !.frame = TRUE]

\* the cleanup of the mount effect
SimpleCleanup(c) ==
  [c EXCEPT !.phase = "unmounted", !.frame = FALSE, !.mesh = NoSimpleMesh,
            !.userMeshes = 0, !.scene = FALSE]

\* ------------------------------------------------------------------- actions
Live == mounted /\ ~crashed

\* the page before the canvas has its renderer
InitPage ==
  /\ IS_WEBGPU \in BOOLEAN
  /\ renderer = "none"
  /\ glLost = FALSE /\ lostPrevented = FALSE
  /\ glbCache = [p \in GlbPaths |-> "pending"]
  /\ crashed = FALSE
  /\ meshIndex = 0 /\ matIndex = 0
  /\ params = MATERIALS[1].base
  /\ texScale = 56
  /\ safeMode = FALSE /\ ctxVersion = 0 /\ sceneReady = FALSE
  /\ mounted = FALSE
  /\ loadingGlb = FALSE /\ readyNotified = FALSE /\ glbMountTick = 0
  /\ tex = None /\ loadingTex = FALSE /\ lastMap = None
  /\ texLoads = <<>> /\ loadError = FALSE
  /\ sharedMat = NoMat /\ matCount = 0
  /\ nodeKey = NoKey
  /\ glbLeaves = [p \in GlbPaths |-> GlbScene0]
  /\ primLeaf = NoLeaf
  /\ raf = NoKey

\* no function is being probed
NoProbe == [kind |-> "none", arg |-> None]
NoResult == [kind |-> "none"]

Init == InitPage /\ probe = NoProbe /\ result = NoResult /\ page = ScrollerInit /\ simple = SimpleInit

\* <Canvas gl={...}>: the renderer factory runs once per canvas mount
CreateRenderer ==
  /\ renderer = "none"
  /\ \E g \in GpuEnvs : renderer' = glFactory(IS_WEBGPU, g)
  /\ UNCHANGED <<IS_WEBGPU, glLost, lostPrevented, glbCache, crashed, meshIndex, matIndex,
                 params, texScale, safeMode, ctxVersion, sceneReady, mounted, loadingGlb,
                 readyNotified, glbMountTick, tex, loadingTex, lastMap, texLoads, loadError,
                 sharedMat, matCount, nodeKey, glbLeaves, primLeaf, raf, probe, result,
                 page, simple>>

\* the Scene mounts once the canvas has its renderer
MountScene ==
  /\ renderer \in {"webgpu", "webgl"} /\ ~mounted /\ ~crashed
  /\ Becomes(Settle(St, St, TRUE))

\* <select id="mesh" onChange={(e) => setMeshIndex(...)}>
SelectMeshOf(M) ==
  /\ Live /\ sceneReady
  /\ \E i \in M :
       /\ i # meshIndex
       /\ IsGLB(i) => glbMountTick < MaxTick
       /\ Becomes(Settle(St, [St EXCEPT !.meshIndex = i, !.tcDirty = TRUE], FALSE))

SelectMesh == SelectMeshOf(MeshInputs)
SelectMeshWide == SelectMeshOf(MeshInputsWide)

\* <select id="mat" onChange={(e) => setMatIndex(...)}>
SelectPresetOf(P) ==
  /\ Live /\ sceneReady /\ Len(texLoads) < MaxLoads
  /\ \E i \in P :
       /\ i # matIndex
       /\ Becomes(Settle(St, [St EXCEPT !.matIndex = i, !.tcDirty = TRUE], FALSE))

SelectPreset == SelectPresetOf(MatInputs)
SelectPresetWide == SelectPresetOf(MatInputsWide)

\* <Slider label="Texture Scale" onChange={setTexScale}>
SetTexScale ==
  /\ Live /\ sceneReady /\ Len(texLoads) < MaxLoads
  /\ CurrentMapUrl(matIndex) # None
  /\ \E v \in ScaleInputs :
       /\ v # texScale
       /\ Becomes(Settle(St, [St EXCEPT !.texScale = v, !.tcDirty = TRUE], FALSE))

\* the colour picker and the sliders of the panel
EditParamOf(E) ==
  /\ Live /\ sceneReady
  /\ \E e \in E :
       /\ ControlShown(St, e[1])
       /\ params[e[1]] # e[2]
       /\ Becomes(Settle(St, SetParam(St, e[1], e[2]), FALSE))

EditParam == EditParamOf(ParamEdits)
EditParamWide == EditParamOf(ParamEditsWide)

\* a texture load succeeds
TexLoaded ==
  /\ Live
  /\ \E k \in DOMAIN texLoads : Becomes(Settle(St, TexOnLoad(St, k), FALSE))

\* a texture load fails
TexFailed ==
  /\ Live
  /\ \E k \in DOMAIN texLoads : Becomes(Settle(St, TexOnError(St, k), FALSE))

\* a model file arrives in useGLTF's cache; a suspended GlbNode is retried
GlbLoadedOf(M) ==
  /\ ~crashed
  /\ \E p \in PathsOf(M) :
       /\ glbCache[p] = "pending"
       /\ LET s1 == [St EXCEPT !.glbCache[p] = "loaded"] IN
          IF mounted THEN Becomes(Settle(St, s1, FALSE)) ELSE Becomes(s1)

GlbLoaded == GlbLoadedOf(MeshInputs)
GlbLoadedWide == GlbLoadedOf(MeshInputsWide)

\* a model file fails to load; a suspended GlbNode is retried and throws
GlbFailedOf(M) ==
  /\ ~crashed
  /\ \E p \in PathsOf(M) :
       /\ glbCache[p] = "pending"
       /\ LET s1 == [St EXCEPT !.glbCache[p] = "failed"] IN
          IF mounted THEN Becomes(Settle(St, s1, FALSE)) ELSE Becomes(s1)

GlbFailed == GlbFailedOf(MeshInputs)
GlbFailedWide == GlbFailedOf(MeshInputsWide)

\* GlbNode: useEffect(() => { onReady?.() }, [onReady, gltf]).  onReady is a new
\* closure at every render of Scene, so the effect is due after every render
\* in which GlbNode is mounted.
GlbNodeEffect ==
  /\ GlbNodeMounted(St) /\ glbMountTick < MaxTick
  /\ Becomes(Settle(St, GlbOnReady(St), FALSE))

\* the animation frame requested by the assign effect
RafAssign ==
  /\ Live /\ raf # NoKey
  /\ Becomes([assign(St, raf) EXCEPT !.raf = NoKey])

\* the browser loses the WebGL context and dispatches webglcontextlost
ContextLost ==
  /\ Live /\ renderer = "webgl" /\ ~glLost /\ ctxVersion < MaxCtx
  /\ Becomes(Settle(St, handleLost([St EXCEPT !.glLost = TRUE, !.lostPrevented = FALSE]), FALSE))

\* the browser restores a context whose loss event had its default prevented
ContextRestored ==
  /\ Live /\ glLost /\ lostPrevented
  /\ Becomes(Settle(St, handleRestored([St EXCEPT !.glLost = FALSE]), FALSE))

\* ----------------------------------------------------- actions of the page
pageOthers == <<sceneVars, probe, result, simple>>

\* the setTimeout(0) of the setup effect: scrollToIndex(first, 0); updateActive()
\* (first is the section of location.hash, or the first one)
PageStart ==
  /\ ~page.started
  /\ \E i \in 0 .. NumSections - 1 :
       page' = updateActive(scrollToIndex([page EXCEPT !.started = TRUE], i, 0))
  /\ UNCHANGED pageOthers

\* the import of Lenis resolves and the Lenis effect sets lenisRef.current
LenisLoaded ==
  /\ ~page.lenis
  /\ page' = [page EXCEPT !.lenis = TRUE]
  /\ UNCHANGED pageOthers

\* a click on a nav link or on a dot: scrollToIndex(idx, SCROLL_MS)
ClickSection ==
  /\ page.started /\ Len(page.timers) < MaxTimers
  /\ \E i \in 0 .. NumSections - 1 : page' = scrollToIndex(page, i, SCROLL_TICKS)
  /\ UNCHANGED pageOthers

\* onWheel with the accumulated delta at the threshold: one section up or down
WheelStep ==
  /\ page.started /\ ~page.isAnimating /\ Len(page.timers) < MaxTimers
  /\ \E dir \in {-1, 1} :
       page' = scrollToIndex(page, ClampSection(currentIndex(page) + dir), SCROLL_TICKS)
  /\ UNCHANGED pageOthers

\* onWheel below the threshold: the settle timer is set anew
WheelSmall ==
  /\ page.started /\ ~page.isAnimating /\ page.settle # WHEEL_SETTLE_TICKS
  /\ page' = [page EXCEPT !.settle = WHEEL_SETTLE_TICKS]
  /\ UNCHANGED pageOthers

\* onTouchEnd: a swipe steps one section, a tap settles on the current one
TouchEnd ==
  /\ page.started /\ ~page.isAnimating /\ Len(page.timers) < MaxTimers
  /\ \E dir \in {-1, 0, 1} :
       page' = scrollToIndex(page, ClampSection(currentIndex(page) + dir),
                             IF dir = 0 THEN SETTLE_TICKS ELSE SCROLL_TICKS)
  /\ UNCHANGED pageOthers

\* a timer whose time has come is run before time advances
TimerDue(p) == p.settle = 0 \/ \E k \in DOMAIN p.timers : p.timers[k] = 0

\* one tick passes: the frames of the running scrolls and the timers' clocks
PageTick ==
  /\ page.anim.on \/ page.lscroll.on \/ page.timers # <<>> \/ page.settle > 0
  /\ ~TimerDue(page)
  /\ page' = TimersTick(FallbackFrame(LenisFrame(page)))
  /\ UNCHANGED pageOthers

\* a completion timer of goToY fires
GoToYTimerFires ==
  /\ \E k \in DOMAIN page.timers :
       page.timers[k] = 0 /\ page' = goToYTimer(page, k)
  /\ UNCHANGED pageOthers

\* the settle timer of the wheel handler fires
SettleTimerFires ==
  /\ page.settle = 0
  /\ page' = settleTimer(page)
  /\ UNCHANGED pageOthers

NextScroller ==
  \/ PageStart \/ LenisLoaded \/ ClickSection \/ WheelStep \/ WheelSmall \/ TouchEnd
  \/ PageTick \/ GoToYTimerFires \/ SettleTimerFires

SpecScroller == Init /\ [][NextScroller]_vars

\* -------------------------------------------- actions of ThreeCanvasSimple
simpleOthers == <<sceneVars, probe, result, page>>

\* the component mounts
SimpleMount ==
  /\ simple.phase = "none"
  /\ simple' = SimpleMountEffects(simple)
  /\ UNCHANGED simpleOthers

\* <select id="mesh-select">: setMeshIndex, then the [meshIndex] effect runs
\* the createMesh of the new render
SimpleSelectMesh ==
  /\ simple.phase = "mounted"
  /\ \E i \in SimpleMeshInputs :
       /\ i # simple.meshIndex
       /\ LET c == [simple EXCEPT !.meshIndex = i]
          IN simple' = createMesh(c, SimpleClosure(c))
  /\ UNCHANGED simpleOthers

\* <select id="material-select">: setMatIndex, then the [matIndex] effect
SimpleSelectPreset ==
  /\ simple.phase = "mounted"
  /\ \E i \in SimpleMatInputs :
       /\ i # simple.matIndex
       /\ simple' = SimplePresetEffect([simple EXCEPT !.matIndex = i])
  /\ UNCHANGED simpleOthers

\* a control of the panel: setParams, then the [params] effect
SimpleEditParam ==
  /\ simple.phase = "mounted"
  /\ \E e \in SimpleParamEdits :
       /\ simple.params[e[1]] # e[2]
       /\ simple' = SimpleParamsEffect([simple EXCEPT !.params[e[1]] = e[2]])
  /\ UNCHANGED simpleOthers

\* the imports resolve and the async function runs to its end
SimpleSetupDone ==
  /\ simple.setup = "pending"
  /\ simple' = SimpleSetupRest(simple)
  /\ UNCHANGED simpleOthers

\* the component unmounts
SimpleUnmount ==
  /\ simple.phase = "mounted"
  /\ simple' = SimpleCleanup(simple)
  /\ UNCHANGED simpleOthers

NextSimple ==
  \/ SimpleMount \/ SimpleSelectMesh \/ SimpleSelectPreset \/ SimpleEditParam
  \/ SimpleSetupDone \/ SimpleUnmount

SpecSimple == Init /\ [][NextSimple]_vars

Next ==
  \/ CreateRenderer \/ MountScene
  \/ SelectMesh \/ SelectPreset \/ SetTexScale \/ EditParam
  \/ TexLoaded \/ TexFailed \/ GlbLoaded \/ GlbFailed
  \/ GlbNodeEffect \/ RafAssign
  \/ ContextLost \/ ContextRestored

Spec == Init /\ [][Next]_vars

\* the mesh half: every mesh of the wide set, its loads, the context signals
NextMesh ==
  \/ CreateRenderer \/ MountScene
  \/ SelectMeshWide \/ GlbLoadedWide \/ GlbFailedWide
  \/ GlbNodeEffect \/ RafAssign
  \/ TexLoaded \/ TexFailed
  \/ ContextLost \/ ContextRestored

SpecMesh == Init /\ [][NextMesh]_vars

\* the texture half: every preset of the wide set, the scale, the texture loads
NextTexture ==
  \/ CreateRenderer \/ MountScene
  \/ SelectPresetWide \/ SetTexScale \/ EditParam
  \/ TexLoaded \/ TexFailed

SpecTexture == Init /\ [][NextTexture]_vars

\* the parameter half: every preset of the wide set and the slider edits
NextParams ==
  \/ CreateRenderer \/ MountScene
  \/ SelectPresetWide \/ EditParamWide
  \/ TexLoaded

SpecParams == Init /\ [][NextParams]_vars


\* --------------------------------------------- functions applied to a probe
\* SpecFn draws an argument (probe) and applies one function of the module to
\* it (result); the page itself stays as it is before the canvas is created.

Abs(x) == IF x < 0 THEN -x ELSE x

\* boxProjectUVsCentered: let axis = 'x'; if (ny > nx && ny > nz) axis = 'y';
\* else if (nz > nx && nz > ny) axis = 'z'
boxProjectAxis(n) ==
  LET nx == Abs(n[1])  ny == Abs(n[2])  nz == Abs(n[3])
  IN IF ny > nx /\ ny > nz THEN "y"
     ELSE IF nz > nx /\ nz > ny THEN "z"
     ELSE "x"

\* triSample: if (an.x > an.y && an.x > an.z) zy-plane (axis x);
\* else if (an.y > an.z) xz-plane (axis y); else xy-plane (axis z)
triSampleAxis(n) ==
  LET ax == Abs(n[1])  ay == Abs(n[2])  az == Abs(n[3])
  IN IF ax > ay /\ ax > az THEN "x"
     ELSE IF ay > az THEN "y"
     ELSE "z"

\* surface normals, up to length: every direction with small integer components
Normals ==
  {n \in (-MaxN .. MaxN) \X (-MaxN .. MaxN) \X (-MaxN .. MaxN) : n # <<0, 0, 0>>}

\* a material as new MeshPhysicalMaterial(...) leaves it: no uniforms, no hook
FreshMat == [NoMat EXCEPT !.id = 1, !.gen = 0, !.color = White, !.map = WhiteTex]

\* patched materials with whatever the Scene may have put into the uniforms
PatchedMats ==
  {[applyTriplanar(FreshMat) EXCEPT !.triMap = t, !.triScale = sc, !.triPivot = pv] :
     t \in {NullMap, WhiteTex, "/texture1.jpg"}, sc \in ScaleInputs \cup {100},
     pv \in {<<0, 0, 0>>, GlbPivot(0)}}

\* the inputs of one run of the material effect
ReconcileInputs ==
  [matIndex : MatInputsWide, loaded : BOOLEAN, texScale : ScaleInputs]

\* sizeRef = Math.max(sizeWS.x, sizeWS.y, sizeWS.z) || 1
sizeRefOf(ext) ==
  LET mx == IF ext[1] >= ext[2] /\ ext[1] >= ext[3] THEN ext[1]
            ELSE IF ext[2] >= ext[3] THEN ext[2] ELSE ext[3]
  IN IF mx = 0 THEN 1 ELSE mx

\* boxProjectUVsCentered without the + 0.5
boxProjectUVUncentered(w, pivot, sizeRef, n) ==
  LET px == 2 * (w[1] - pivot[1])
      py == 2 * (w[2] - pivot[2])
      pz == 2 * (w[3] - pivot[3])
      axis == boxProjectAxis(n)
  IN [axis |-> axis, den |-> 2 * sizeRef,
      u |-> IF axis = "x" THEN pz ELSE px,
      v |-> IF axis = "y" THEN pz ELSE py]

\* boxProjectUVsCentered for one vertex with world position w and world normal
\* n: pc = (w - pivot) / sizeRef; uvX = [pc.z + 0.5, pc.y + 0.5], uvY = [pc.x +
\* 0.5, pc.z + 0.5], uvZ = [pc.x + 0.5, pc.y + 0.5]; the pair of the chosen
\* axis.  The two components are kept as the numerators u, v of fractions with
\* the denominator den = 2 * sizeRef.
boxProjectUV(w, pivot, sizeRef, n) ==
  LET px == 2 * (w[1] - pivot[1]) + sizeRef
      py == 2 * (w[2] - pivot[2]) + sizeRef
      pz == 2 * (w[3] - pivot[3]) + sizeRef
      axis == boxProjectAxis(n)
  IN [axis |-> axis, den |-> 2 * sizeRef,
      u |-> IF axis = "x" THEN pz ELSE px,
      v |-> IF axis = "y" THEN pz ELSE py]

\* the extents of the bounding boxes tried (0 is a flat or empty side)
MaxExt == 4
Extents == {0, 2, MaxExt} \X {0, 2, MaxExt} \X {0, 2, MaxExt}
\* the vertex lies in the box: within half the extent of the pivot on each axis
InBox(a) == \A k \in 1 .. 3 : 2 * Abs(a.w[k] - a.pivot[k]) <= a.ext[k]
\* one normal per dominant axis, and two with a tie
VertexNormals == {<<2, 1, 0>>, <<-1, 2, 1>>, <<0, 1, -2>>, <<1, 1, 0>>, <<0, 1, 1>>}
VertexInputs ==
  {[w |-> <<pv[1] + d[1], pv[2] + d[2], pv[3] + d[3]>>, pivot |-> pv, ext |-> e, n |-> n] :
     pv \in {<<0, 0, 0>>, GlbPivot(0)}, e \in Extents, d \in (-2 .. 2) \X (-2 .. 2) \X (-2 .. 2),
     n \in VertexNormals}

FnInputs ==
  {[kind |-> "normal", arg |-> n] : n \in Normals}
    \cup {[kind |-> "patch", arg |-> m] : m \in PatchedMats \cup {FreshMat}}
    \cup {[kind |-> "reconcile", arg |-> a] : a \in ReconcileInputs}
    \cup {[kind |-> "vertex", arg |-> a] : a \in {x \in VertexInputs : InBox(x)}}

InitFn ==
  InitPage /\ probe \in FnInputs /\ result = NoResult /\ page = ScrollerInit /\ simple = SimpleInit

\* both projection strategies choose the axis for the same normal
ChooseAxis ==
  /\ probe.kind = "normal" /\ result = NoResult
  /\ result' = [box |-> boxProjectAxis(probe.arg), tri |-> triSampleAxis(probe.arg)]
  /\ UNCHANGED <<sceneVars, probe, page, simple>>

\* applyTriplanar(material)
ApplyPatch ==
  /\ probe.kind = "patch" /\ result = NoResult
  /\ result' = applyTriplanar(probe.arg)
  /\ UNCHANGED <<sceneVars, probe, page, simple>>

\* the Scene as it is rendered with the probe's preset, texture and scale
ReconcileState(a) ==
  CreateSharedMat([St EXCEPT !.matIndex = a.matIndex,
                             !.params = MATERIALS[a.matIndex + 1].base,
                             !.texScale = a.texScale,
                             !.tex = IF a.loaded THEN CurrentMapUrl(a.matIndex) ELSE None])

\* the material effect runs twice in a row on the same parameter set, texture
\* and scale (as it does when setParams stores an equal set in a new object)
ReconcileTwice ==
  /\ probe.kind = "reconcile" /\ result = NoResult
  /\ LET s0 == ReconcileState(probe.arg)
         s1 == MaterialEffect(s0, s0)
         s2 == MaterialEffect(s0, s1)
     IN result' = [first |-> MaterialWrites(s0, s0), second |-> MaterialWrites(s0, s1),
                   changed |-> s2.sharedMat # s1.sharedMat]
  /\ UNCHANGED <<sceneVars, probe, page, simple>>

\* boxProjectUVsCentered computes the UV of one vertex of a mesh whose box has
\* the probe's pivot and extents
ProjectVertex ==
  /\ probe.kind = "vertex" /\ result = NoResult
  /\ result' = boxProjectUV(probe.arg.w, probe.arg.pivot, sizeRefOf(probe.arg.ext),
                            probe.arg.n)
  /\ UNCHANGED <<sceneVars, probe, page, simple>>

NextFn == ChooseAxis \/ ApplyPatch \/ ReconcileTwice \/ ProjectVertex

SpecFn == InitFn /\ [][NextFn]_vars

\* ==================================================================== claims

\* what the renderer samples as the surface texture of the shared material
BoundTexture == IF IS_WEBGPU THEN sharedMat.map ELSE sharedMat.triMap

\* a texture load the Scene still waits for
TexturePending == \E k \in DOMAIN texLoads : texLoads[k].alive

\* the step is the arrival (success or failure) of a superseded load
StaleArrival ==
  \E k \in DOMAIN texLoads : ~texLoads[k].alive /\ texLoads' = Remove(texLoads, k)

\* C1: when texture loads overlap, the texture the Scene holds once every load
\* has ended is that of the last selected preset (none for a preset without a
\* texture; the case in which the load of the last selection itself ended in
\* an error is C7's), and the arrival of a superseded load, whether it
\* succeeds or fails, changes neither the held texture nor the material.
C1_LastSelectionWins ==
  /\ [](Live /\ texLoads = <<>> /\ ~loadError => tex = CurrentMapUrl(matIndex))
  /\ [][StaleArrival => tex' = tex /\ lastMap' = lastMap /\ sharedMat' = sharedMat]_vars

\* the last selection's texture is bound while the load of an earlier
\* selection, superseded, is still in flight
C1_Witness ==
  /\ Live /\ tex # None /\ tex = CurrentMapUrl(matIndex) /\ BoundTexture = tex
  /\ \E k \in DOMAIN texLoads : ~texLoads[k].alive /\ texLoads[k].url # tex

\* the step is the webglcontextrestored signal (it follows a lost signal)
RestoredSignal == glLost /\ ~glLost'
\* the step is the webglcontextlost signal
LostSignal == ~glLost /\ glLost'

\* C2: ctxVersion changes only on a restored signal that follows a lost
\* signal, then by exactly one, and safe mode is off after that restore.
C2_VersionOncePerCycle ==
  [][/\ ctxVersion' # ctxVersion => RestoredSignal
     /\ RestoredSignal => ctxVersion' = ctxVersion + 1 /\ ~safeMode']_vars

\* two full loss / restore cycles have been handled
C2_Witness == Live /\ ctxVersion = 2 /\ ~glLost /\ ~safeMode

\* C3: ctxVersion never decreases.
C3_VersionMonotone == [][ctxVersion' >= ctxVersion]_vars

\* a second loss arrives after a restore, a mesh change and a preset change
C3_Witness ==
  Live /\ ctxVersion = 1 /\ glLost /\ meshIndex # 0 /\ matIndex # 0

\* every displayed leaf carries the shared material and both shadow flags
LeavesBound ==
  \A l \in DisplayedLeaves(St) :
    l.mat = sharedMat.id /\ l.castShadow /\ l.receiveShadow

\* C4: after a restore every generation-keyed resource is rebuilt: the material
\* is of the current generation, the mesh node is of the current generation,
\* and every leaf of the displayed mesh carries the material and the cast /
\* receive shadow flags.
C4_RebuiltAfterRestore ==
  (Live /\ ctxVersion > 0 /\ ~glLost /\ ~loadingGlb /\ raf = NoKey)
    => /\ sharedMat.gen = ctxVersion
       /\ nodeKey = KeyOf(St)
       /\ LeavesBound

\* C5: safe mode is on exactly from a lost signal until the restored signal;
\* the lost signal is acknowledged (default prevented); only the restored
\* signal turns safe mode off.
C5_SafeModeWhileLost ==
  [][/\ safeMode' = glLost'
     /\ LostSignal => lostPrevented' /\ safeMode'
     /\ (safeMode /\ ~safeMode') => RestoredSignal]_vars

\* the Scene took a mesh change while in safe mode and is still in it
C5_Witness == Live /\ safeMode /\ glLost /\ lostPrevented /\ meshIndex # 0

C7_FailureBindsPlaceholder ==
  (Live /\ loadError /\ ~TexturePending) => BoundTexture \in {WhiteTex, NullMap}

\* C8: whatever way the initialisation of the modern backend fails (import,
\* missing constructor, throwing constructor, rejected init), the factory
\* yields the legacy renderer and no error leaves it.
C8_InitFailureFallsBack ==
  renderer \notin {"threw_ctor", "threw_init"}

\* C9: when the load of the selected model fails the Scene shows the empty
\* placeholder group, no exception leaves the Scene, and loadingGlb is cleared.
C9_ModelFailureShowsPlaceholder ==
  (mounted /\ IsGLB(meshIndex) /\ glbCache[GlbPathOf(meshIndex)] = "failed")
    => ~crashed /\ ~loadingGlb /\ DisplayedLeaves(St) = {}

\* C10: the first ready notification is emitted only once the first selected
\* mesh and the first selected texture have both resolved.
C10_ReadyAfterFirstResolved ==
  [][(~sceneReady /\ sceneReady')
       => /\ ~TexturePending'
          /\ IsGLB(meshIndex') => glbCache'[GlbPathOf(meshIndex')] = "loaded"]_vars

\* the parameters the material effect snaps
SnappedFields == {"transmission", "thickness", "clearcoat"}

\* C14: for transmission, thickness and clearcoat the value applied to the
\* material is exactly 0 when the requested value is below 0.02 and exactly the
\* requested value when it is above 0.02; it is never anything else.
C14_EpsilonSnapping ==
  Live => \A f \in SnappedFields :
            /\ params[f] < EPS => sharedMat[f] = 0
            /\ params[f] > EPS => sharedMat[f] = params[f]
            /\ sharedMat[f] \in {0, params[f]}

\* transmission 0.03 is applied as 0.03 and thickness 0.01 as 0
C14_Witness ==
  /\ Live /\ params.transmission = 3 /\ sharedMat.transmission = 3
  /\ params.thickness = 1 /\ sharedMat.thickness = 0

\* C15: a requested transmission, thickness or clearcoat of exactly 0.02 is
\* applied to the material unchanged as 0.02.
C15_ThresholdKept ==
  Live => \A f \in SnappedFields : params[f] = EPS => sharedMat[f] = EPS

\* the parameter set a preset selection has to leave: the base of the preset,
\* without a colour field when the preset has a texture
PresetParams(i) ==
  [f \in DOMAIN MATERIALS[i + 1].base |->
     IF f = "color" /\ CurrentMapUrl(i) # None THEN None ELSE MATERIALS[i + 1].base[f]]

\* C16: selecting a different preset overwrites the live parameter set: every
\* numeric parameter equals the preset's base value whatever was edited
\* before, the colour is the preset's colour, and a preset with a texture
\* leaves no colour field.
C16_PresetOverwritesParams ==
  [][matIndex' # matIndex => params' = PresetParams(matIndex')]_vars

\* a textured preset was selected after the colour had been edited to red: the
\* parameter set is the preset's, while the material (modern backend, texture
\* not yet loaded) still shows the edited colour
C16_Witness ==
  /\ Live /\ CurrentMapUrl(matIndex) # None /\ params = PresetParams(matIndex)
  /\ sharedMat.color = "#ff0000"

\* C11: texture and colour exclude each other in the reconciled material: for
\* a preset with a texture whose load has completed the colour is white and
\* the texture binding is the preset's texture; for a preset without a texture
\* the colour is the current albedo colour and the texture binding is the
\* placeholder (the 1x1 white texture).
C11_TextureOverridesColour ==
  (Live /\ ~TexturePending /\ ~loadError)
    => IF CurrentMapUrl(matIndex) # None
       THEN sharedMat.color = White /\ BoundTexture = CurrentMapUrl(matIndex)
       ELSE sharedMat.color = params.color /\ BoundTexture = WhiteTex

\* C12: after a preset with another texture is selected, the texture of the
\* preset selected before is not bound to the material once reconciliation
\* has run; it is not bound while the new texture is loading.
C12_NoStaleTextureWhileLoading ==
  Live => BoundTexture \in {WhiteTex, NullMap, CurrentMapUrl(matIndex)}

\* C17: when the load step runs for a URL that is already current (its
\* texture is loaded and held), whether by a preset selection that comes back
\* to it or by a change of the texture scale, no load is started and the held
\* and the bound texture stay as they are.
C17_CurrentUrlNotReloaded ==
  [][(Live /\ lastMap # None /\ CurrentMapUrl(matIndex') = lastMap)
       => /\ Len(texLoads') <= Len(texLoads)
          /\ ~TexturePending'
          /\ tex' = tex /\ lastMap' = lastMap /\ BoundTexture' = BoundTexture]_vars

\* the preset whose texture is held was selected again while the load of
\* another preset was in flight, and the scale was changed: nothing is loading
C17_Witness ==
  /\ Live /\ lastMap # None /\ lastMap = CurrentMapUrl(matIndex) /\ tex = lastMap
  /\ loadingTex /\ ~TexturePending /\ texScale = 100

\* C18: at no time are two loads of the same URL in flight.
C18_LoadsDedupedByUrl ==
  \A j, k \in DOMAIN texLoads : j # k => texLoads[j].url # texLoads[k].url

\* C13: when the material effect is applied twice in a row with the identical
\* parameter set, texture and scale, the second application writes nothing to
\* the material.
C13_SecondApplicationWritesNothing ==
  (probe.kind = "reconcile" /\ result # NoResult) => result.second = {}

\* C19: applying applyTriplanar to an already patched material keeps the
\* uniforms with their triMap, triScale, triSharp and triPivot values and
\* leaves the material with exactly one compile hook; a first application
\* leaves one hook as well.
C19_PatchIdempotent ==
  (probe.kind = "patch" /\ result # NoResult)
    => /\ result.hooks = 1
       /\ probe.arg.hooks = 1 => result = probe.arg
       /\ applyTriplanar(result) = result

\* a patched material that holds a texture, the scale 0.56 and the pivot of a
\* model has been patched again
C19_Witness ==
  /\ probe.kind = "patch" /\ result # NoResult /\ probe.arg.hooks = 1
  /\ result.triMap = "/texture1.jpg" /\ result.triScale = 56
  /\ result.triPivot = GlbPivot(0) /\ result.triSharp = 200

\* C20: for every surface normal, ties between its largest absolute
\* components included, boxProjectUVsCentered and the shader's triSample
\* choose the same projection axis.
C20_SameAxis ==
  (probe.kind = "normal" /\ result # NoResult) => result.box = result.tri

\* the uv attribute boxProjectUVsCentered gives a leaf of the displayed node
CurrentUV ==
  [src |-> "box", pivot |-> PivotOf(St, nodeKey), size |-> SizeOf(St, nodeKey)]

\* the step changes a dependency of the assign effect: the cleanup of its
\* previous run (cancelAnimationFrame) runs, then the effect again
AssignEffectReruns == meshIndex' # meshIndex \/ glbMountTick' # glbMountTick

\* C21: after every mesh swap and every model mount the assignment and the UV
\* generation run at once and once more on a deferred tick; a deferred tick
\* requested for the node that stays displayed is not cancelled before it
\* runs; and once the Scene is quiescent (the mesh resolved, no deferred tick
\* pending) every leaf of the displayed mesh carries the UVs computed from the
\* pivot and size of the displayed mesh (modern backend).
C21_UVsNeverStale ==
  /\ []((IS_WEBGPU /\ Live /\ ~loadingGlb /\ raf = NoKey)
          => \A l \in DisplayedLeaves(St) : l.uv = CurrentUV)
  /\ [][(raf # NoKey /\ raf = nodeKey') => ~AssignEffectReruns]_vars

\* the normal is dominated by its component k
Dominant(n, k) == \A j \in (1 .. 3) \ {k} : Abs(n[k]) > Abs(n[j])

\* the fraction num / den equals c / s + 1/2
IsCentred(num, den, c, s) == num * 2 * s = (2 * c + s) * den

\* C22: with c = (w - p) / s the generated UV is (c.z + 0.5, c.y + 0.5) for an
\* X-dominant normal, (c.x + 0.5, c.z + 0.5) for a Y-dominant and
\* (c.x + 0.5, c.y + 0.5) for a Z-dominant one; a vertex at the pivot gets
\* (0.5, 0.5) whatever the axis; a vertex inside the box with centre p and
\* largest extent s gets both components within [0, 1].
C22_BoxUVValues ==
  (probe.kind = "vertex" /\ result # NoResult) =>
    LET a == probe.arg
        s == sizeRefOf(a.ext)
        cx == a.w[1] - a.pivot[1]
        cy == a.w[2] - a.pivot[2]
        cz == a.w[3] - a.pivot[3]
        r == result
    IN /\ Dominant(a.n, 1) => IsCentred(r.u, r.den, cz, s) /\ IsCentred(r.v, r.den, cy, s)
       /\ Dominant(a.n, 2) => IsCentred(r.u, r.den, cx, s) /\ IsCentred(r.v, r.den, cz, s)
       /\ Dominant(a.n, 3) => IsCentred(r.u, r.den, cx, s) /\ IsCentred(r.v, r.den, cy, s)
       /\ a.w = a.pivot => 2 * r.u = r.den /\ 2 * r.v = r.den
       /\ InBox(a) => r.u >= 0 /\ r.u <= r.den /\ r.v >= 0 /\ r.v <= r.den

\* a corner of the box of a model (pivot off the origin, largest extent 4) has
\* been projected along Y: u is 1 and v is 0
C22_Witness ==
  /\ probe.kind = "vertex" /\ result # NoResult
  /\ probe.arg.pivot = GlbPivot(0) /\ probe.arg.ext = <<4, 4, 4>>
  /\ probe.arg.w = <<2, 3, -2>> /\ Dominant(probe.arg.n, 2)
  /\ result.axis = "y" /\ result.u = result.den /\ result.v = 0

\* C23: whenever safe mode is on, every quality setting derived from it
\* (shadows enabled, shadow casting of the key light, shadow-map resolution,
\* device pixel ratio, reflective floor) is at or below its value in the
\* Normal state, and the floor uses the flat material.
C23_SafeOnlyReduces ==
  (Live /\ safeMode) =>
    /\ CanvasShadows(safeMode) => CanvasShadows(FALSE)
    /\ KeyLightCastShadow(safeMode) => KeyLightCastShadow(FALSE)
    /\ ShadowMapSize(safeMode) <= ShadowMapSize(FALSE)
    /\ \A d \in DevicePixelRatios : CanvasDpr(safeMode, d) <= CanvasDpr(FALSE, d)
    /\ FloorMaterial(safeMode) = "flat"

\* the component of a normal an axis name stands for
AxisIndex(a) == IF a = "x" THEN 1 ELSE IF a = "y" THEN 2 ELSE 3

\* no component of the normal is larger in absolute value than that of the axis
MostAligned(n, a) == \A j \in 1 .. 3 : Abs(n[AxisIndex(a)]) >= Abs(n[j])

\* C24: for every surface normal the axis chosen by triSample and the axis
\* chosen by boxProjectUVsCentered each have an absolute normal component that
\* is maximal among the three (|ny| = |nz| > |nx| must not select X).
C24_MostAlignedAxis ==
  (probe.kind = "normal" /\ result # NoResult)
    => MostAligned(probe.arg, result.tri) /\ MostAligned(probe.arg, result.box)

\* <Html> with 'Loading texture...' is rendered while loadingTex (or loadingGlb)
LoadingIndicatorShown == loadingTex \/ loadingGlb

\* C25: loadingTex is true only while a texture load whose result can still be
\* applied is pending: whenever no such load is pending, after whatever
\* sequence of selections, scale changes, completions and failures,
\* loadingTex is false, and with the mesh resolved the indicator is hidden.
C25_LoadingFlagFollowsLoads ==
  (Live /\ ~TexturePending) => /\ ~loadingTex
                               /\ ~loadingGlb => ~LoadingIndicatorShown

\* GlbNode is mounted and onReady has run for this mount (first context
\* generation: loadingGlb is set on every mesh change and cleared by onReady)
ModelResolved == GlbNodeMounted(St) /\ ~loadingGlb /\ ctxVersion = 0

\* C26: after a model has mounted and its onReady has run, and while the same
\* node stays mounted, the GLB mount tick does not change any more (it is
\* incremented once per mount) and so the assign effect, which depends on it,
\* does not run again.
C26_TickOncePerMount ==
  [][(ModelResolved /\ nodeKey' = nodeKey) => glbMountTick' = glbMountTick]_vars

\* the triplanar patch is installed on the live material
TriplanarInstalled == sharedMat.hooks > 0
\* a displayed leaf carries box-projected UVs
BoxUVsUsed == \E l \in DisplayedLeaves(St) : l.uv.src = "box"

\* C27: the texture-mapping strategy matches the renderer in use: the
\* triplanar patch is on the live material exactly when the legacy renderer
\* was instantiated, and box-projected UVs are generated only when the modern
\* renderer was, also when the modern backend was probed as available and the
\* factory fell back to the legacy renderer.
C27_StrategyMatchesRenderer ==
  Live => /\ TriplanarInstalled <=> renderer = "webgl"
          /\ BoxUVsUsed => renderer = "webgpu"

\* the page is at rest: no scroll is running and no timer is pending
PageQuiet ==
  /\ page.started /\ ~page.anim.on /\ ~page.lscroll.on
  /\ page.timers = <<>> /\ page.settle = -1

\* C28: after every change of the page's active section index the Navbar's
\* activeSection comes to equal it: whenever the page is at rest, the
\* Navbar's activeSection is the page's active index.
C28_NavbarFollowsActive == PageQuiet => page.navActive = page.active

\* a programmatic scroll (of Lenis or of the fallback animator) is running
ScrollRunning == page.anim.on \/ page.lscroll.on

\* C29: isAnimating covers every programmatic scroll: it is true from the
\* start of a scroll until that scroll has ended, whatever goToY calls come in
\* between; the timer or callback of an earlier scroll does not clear it
\* while a scroll started later is running.
C29_FlagCoversScroll == ScrollRunning => page.isAnimating

\* the mesh the scene shows is the one the controls select
SimpleMeshMatches ==
  /\ simple.userMeshes = 1
  /\ simple.mesh.geometry = simple.meshIndex
  /\ simple.mesh.material = simple.params

\* C30: in ThreeCanvasSimple, whenever the scene holds a mesh and the
\* asynchronous setup is not pending, the scene holds exactly one user mesh
\* whose geometry is that of the selected mesh index and whose material
\* parameters are the current params; after the unmount, once the setup is no
\* longer pending, there is no mesh and no animation frame is scheduled.
C30_SimpleMeshMatchesSelection ==
  /\ (simple.mesh.on /\ simple.setup # "pending") => SimpleMeshMatches
  /\ (simple.phase = "unmounted" /\ simple.setup # "pending")
       => (~simple.mesh.on /\ ~simple.frame)

====
